---- MODULE Spec2Model ----
(***************************************************************************)
(* Model of gemm::MemAllocatorHelper (KernelTraits.h): the chunked layout  *)
(* planner that turns an ordered list of (numBytes, alignment) pairs and   *)
(* a parallel list of "reuse the first chunk" flags into chunk offsets and *)
(* a total buffer size.                                                    *)
(*                                                                         *)
(* The object is immutable after construction, so the state is the two     *)
(* member vectors plus the position of the single caller: which method it  *)
(* is in, with which argument, and what came back.  C++ indices are        *)
(* 0-based; the TLA+ sequences are 1-based, so element ii of a vector is   *)
(* v[ii + 1].  All values stay far below 2^31, so int32_t arithmetic is    *)
(* exact here; signed overflow is outside the explored inputs.             *)
(***************************************************************************)
EXTENDS Integers, Sequences, FiniteSets, TLC

VARIABLES
    mNumBytesAndAlignmentPerSmemChunk, \* vector<pair<int32_t,int32_t>>
    mFirstChunkReuse,                  \* vector<bool>
    pc,                                \* "idle" | "getChunkOffset" | "returned"
    fn,                                \* the public method last called
    arg,                               \* its argument (0 when it has none)
    cur,                               \* ii of the innermost getChunkOffset frame
    depth,                             \* number of getChunkOffset(0) delegations
    ret,                               \* what the call returned
    traits                             \* the KernelTraits object of the caller

vars ==
    <<mNumBytesAndAlignmentPerSmemChunk, mFirstChunkReuse, pc, fn, arg, cur, depth, ret,
      traits>>

----------------------------------------------------------------------------
(* Bounds of the explored inputs. *)

MaxChunks == 3      \* longest generated chunk sequence
MaxDepth == 2       \* delegations followed before the exploration stops
MaxPadSize == 40    \* largest size handed to getSizePaddedToAlignment on its own
MaxPadAlign == 16   \* largest alignment handed to getSizePaddedToAlignment on its own

Sizes == {0, 1}             \* numBytes of a generated chunk
Alignments == {0, 1, 2}     \* alignment of a generated chunk (0 is not a power of two)

----------------------------------------------------------------------------
(* Results: a returned int32_t, or the failure that ended the call. *)

Ok(v) == [tag |-> "ok", val |-> <<v>>]
Err(e) == [tag |-> e, val |-> <<>>]
NoResult == [tag |-> "none", val |-> <<>>]
IsOk(r) == r.tag = "ok"
Val(r) == r.val[1]

----------------------------------------------------------------------------
(* Two's-complement bitwise operators on integers. *)

RECURSIVE BitAnd(_, _)
BitAnd(x, y) ==
    IF x = 0 \/ y = 0 THEN 0
    ELSE IF x = -1 THEN y
    ELSE IF y = -1 THEN x
    ELSE (x % 2) * (y % 2) + 2 * BitAnd(x \div 2, y \div 2)

BitNot(x) == -x - 1

----------------------------------------------------------------------------
(* The object: the two member vectors.  The two state variables of these   *)
(* names are the members of the object a method is called on; an accessor  *)
(* of KernelTraits calls the method on its by-value copy of a pool.        *)

Helper(sizes, reuse) == [sizes |-> sizes, reuse |-> reuse]

this == Helper(mNumBytesAndAlignmentPerSmemChunk, mFirstChunkReuse)

NumChunks(self) == Len(self.sizes)
InRange(self, ii) == 0 <= ii /\ ii < NumChunks(self)
ElemFirst(self, ii) == self.sizes[ii + 1][1]
ElemSecond(self, ii) == self.sizes[ii + 1][2]
Reuse(self, ii) == self.reuse[ii + 1]

(* TLLM_CHECK_ERROR(cond, message): a check that does not hold ends the    *)
(* call with the failure; one that holds lets the call go on.              *)
TLLM_CHECK_ERROR(cond, failure) == IF cond THEN NoResult ELSE Err(failure)

(* Mutant: the padding adds alignment instead of alignment - 1. *)
getSizePaddedToAlignment_PadsZero(size, alignment) ==
    LET check == TLLM_CHECK_ERROR(BitAnd(alignment, alignment - 1) = 0, "InvalidAlignment")
    IN  IF check # NoResult THEN check
        ELSE Ok(BitAnd(size + alignment, BitNot(alignment - 1)))

(* Mutant: the mask is applied to size itself, which rounds down. *)
getSizePaddedToAlignment_RoundsDown(size, alignment) ==
    LET check == TLLM_CHECK_ERROR(BitAnd(alignment, alignment - 1) = 0, "InvalidAlignment")
    IN  IF check # NoResult THEN check
        ELSE Ok(BitAnd(size, BitNot(alignment - 1)))

(* getSizePaddedToAlignment: the power-of-two check, then the mask. *)
getSizePaddedToAlignment(size, alignment) ==
    LET check == TLLM_CHECK_ERROR(BitAnd(alignment, alignment - 1) = 0, "InvalidAlignment")
    IN  IF check # NoResult THEN check
        ELSE Ok(BitAnd(size + alignment - 1, BitNot(alignment - 1)))

(* Mutant: the loop ignores the reuse flags and adds every chunk. *)
RECURSIVE OffsetLoop_AlwaysAdd(_, _, _, _)
OffsetLoop_AlwaysAdd(self, ii, jj, totalSize) ==
    IF ~(ii < jj) THEN Ok(totalSize)
    ELSE LET paddedSize == getSizePaddedToAlignment(ElemFirst(self, ii), ElemSecond(self, ii))
         IN  IF ~IsOk(paddedSize) THEN paddedSize
             ELSE OffsetLoop_AlwaysAdd(self, ii + 1, jj, totalSize + Val(paddedSize))

(* Mutant: a reused chunk never raises the total. *)
RECURSIVE OffsetLoop_NoGrow(_, _, _, _)
OffsetLoop_NoGrow(self, ii, jj, totalSize) ==
    IF ~(ii < jj) THEN Ok(totalSize)
    ELSE LET paddedSize == getSizePaddedToAlignment(ElemFirst(self, ii), ElemSecond(self, ii))
         IN  IF ~IsOk(paddedSize) THEN paddedSize
             ELSE IF ~Reuse(self, ii)
                  THEN OffsetLoop_NoGrow(self, ii + 1, jj, totalSize + Val(paddedSize))
             ELSE OffsetLoop_NoGrow(self, ii + 1, jj, totalSize)

(* Mutant: a reused chunk sets the total to its padded size without the    *)
(* comparison.                                                             *)
RECURSIVE OffsetLoop_Shrink(_, _, _, _)
OffsetLoop_Shrink(self, ii, jj, totalSize) ==
    IF ~(ii < jj) THEN Ok(totalSize)
    ELSE LET paddedSize == getSizePaddedToAlignment(ElemFirst(self, ii), ElemSecond(self, ii))
         IN  IF ~IsOk(paddedSize) THEN paddedSize
             ELSE IF Reuse(self, ii)
                  THEN OffsetLoop_Shrink(self, ii + 1, jj, Val(paddedSize))
             ELSE OffsetLoop_Shrink(self, ii + 1, jj, totalSize + Val(paddedSize))

(* The loop of getOffsetBeforeChunk from iteration ii with the running     *)
(* totalSize; a failed check leaves the loop with that failure.            *)
RECURSIVE OffsetLoop(_, _, _, _)
OffsetLoop(self, ii, jj, totalSize) ==
    IF ~(ii < jj) THEN Ok(totalSize)
    ELSE LET paddedSize == getSizePaddedToAlignment(ElemFirst(self, ii), ElemSecond(self, ii))
         IN  IF ~IsOk(paddedSize) THEN paddedSize
             ELSE IF Reuse(self, ii) /\ Val(paddedSize) > totalSize
                  THEN OffsetLoop(self, ii + 1, jj, Val(paddedSize))
             ELSE IF ~Reuse(self, ii)
                  THEN OffsetLoop(self, ii + 1, jj, totalSize + Val(paddedSize))
             ELSE OffsetLoop(self, ii + 1, jj, totalSize)

getOffsetBeforeChunk(self, jj) == OffsetLoop(self, 0, jj, 0)

getTotalSize(self) == getOffsetBeforeChunk(self, NumChunks(self))

(* Mutant: the offset before the chunk is returned without padding it. *)
AlignedOffset_Unaligned(self, ii, alignment) ==
    LET offset == getOffsetBeforeChunk(self, ii)
    IN  IF ~IsOk(offset) THEN offset
        ELSE IF ~IsOk(getSizePaddedToAlignment(Val(offset), alignment))
             THEN getSizePaddedToAlignment(Val(offset), alignment)
        ELSE offset

(* The part of getChunkOffset after the reuse test, for a given alignment. *)
AlignedOffset(self, ii, alignment) ==
    LET offset == getOffsetBeforeChunk(self, ii)
    IN  IF ~IsOk(offset) THEN offset
        ELSE getSizePaddedToAlignment(Val(offset), alignment)

(* Mutant: the reuse flag of the chunk is not consulted. *)
ReuseBranch_Never(self, ii) == FALSE

(* Mutant: every chunk is taken for a reused one. *)
ReuseBranch_Always(self, ii) == TRUE

(* The test at the head of getChunkOffset, for an in-range ii. *)
ReuseBranch(self, ii) == Reuse(self, ii)

(* getChunkOffset for an in-range ii, as a value. *)
RECURSIVE getChunkOffset(_, _)
getChunkOffset(self, ii) ==
    IF ReuseBranch(self, ii)
    THEN getChunkOffset(self, 0)
    ELSE AlignedOffset(self, ii, ElemSecond(self, ii))

----------------------------------------------------------------------------
(* KernelTraits: the two pools built from a kernel configuration.          *)

(* tg::dtypeGetNumBits, tg::dtypeIsBlockFmt and doesSplitKUseDsmem. *)
dtypeGetNumBits(dtype) ==
    CASE dtype = "E2m1" -> 4
      [] dtype = "E4m3" -> 8
      [] dtype = "Bfloat16" -> 16
      [] dtype = "Fp32" -> 32
      [] dtype = "UInt32" -> 32
dtypeIsBlockFmt(dtype) == dtype = "E2m1"
doesSplitKUseDsmem(splitK) == splitK = "Dsmem"

ceilDiv(m, n) == (m + n - 1) \div n

(* Mutant: the shuffled-B chunk is left out when slice-K is off. *)
SmemChunks_DropsDisabled(c) ==
    LET bitsElt == dtypeGetNumBits(c.dtypeElt)
        usesSmemForGmemC == c.useTmaStore \/ doesSplitKUseDsmem(c.splitK)
        dtypeSmemC == IF c.allReduceAlgo = "TwoShot" \/ c.numSlicesForSplitK > 1
                      THEN c.dtypeAcc ELSE c.dtypeC
        mult0 == (IF doesSplitKUseDsmem(c.splitK) THEN c.numSlicesForSplitK ELSE 1)
                 * (IF c.numSlicesForSliceK > 1 THEN c.numSlicesForSliceK ELSE 1)
        storeC(resIdx) ==
            IF usesSmemForGmemC
            THEN ((IF resIdx # 0 /\ ~c.useDeepSeekFp8 THEN 0 ELSE mult0)
                  * c.epilogueTileM * c.epilogueTileN * dtypeGetNumBits(dtypeSmemC)) \div 8
            ELSE 0
    IN  <<  <<(c.numStages * c.tileM * c.tileK * bitsElt) \div 8, 1024>>,
            <<(c.numStages * c.tileN * c.tileK * bitsElt) \div 8, 1024>> >>
        \o (IF c.numSlicesForSliceK > 1
            THEN << <<(c.numStages * c.tileN * c.tileK * bitsElt) \div 8, 1024>> >>
            ELSE << >>)
        \o << <<storeC(0), 1024>>, <<storeC(1), 1024>>,
               <<((IF c.useDeepSeekFp8
                   THEN (IF c.transposeMmaOutput THEN c.tileM ELSE c.tileN)
                   ELSE 0) * dtypeGetNumBits("Fp32")) \div 8, 16>>,
               <<((IF c.numSlicesForSliceK > 1
                   THEN c.numSlicesForSliceK * c.tileM * c.numSlicesForSliceK * c.tileN
                   ELSE 0) * dtypeGetNumBits(c.dtypeAcc)) \div 8, 16>> >>

(* numBytesAndAlignmentPerSmemChunk as the constructor fills it: LoadA,    *)
(* LoadB, SmemBShuffle, GmemC for resIdx 0 and 1, RowMax, SliceK.          *)
SmemChunks(c) ==
    LET bitsElt == dtypeGetNumBits(c.dtypeElt)
        numSmemBytesLoadA == (c.numStages * c.tileM * c.tileK * bitsElt) \div 8
        numSmemBytesLoadB == (c.numStages * c.tileN * c.tileK * bitsElt) \div 8
        numSmemBytesShuffleB ==
            IF c.numSlicesForSliceK > 1
            THEN (c.numStages * c.tileN * c.tileK * bitsElt) \div 8
            ELSE 0
        dtypeSmemC == IF c.allReduceAlgo = "TwoShot" \/ c.numSlicesForSplitK > 1
                      THEN c.dtypeAcc ELSE c.dtypeC
        usesSmemForGmemC == c.useTmaStore \/ doesSplitKUseDsmem(c.splitK)
        extraGmemCMultiplier(resIdx) ==
            IF resIdx # 0 /\ ~c.useDeepSeekFp8 THEN 0
            ELSE (IF doesSplitKUseDsmem(c.splitK) THEN c.numSlicesForSplitK ELSE 1)
                 * (IF c.numSlicesForSliceK > 1 THEN c.numSlicesForSliceK ELSE 1)
        numBytesSmemStoreC(resIdx) ==
            IF usesSmemForGmemC
            THEN (extraGmemCMultiplier(resIdx) * c.epilogueTileM * c.epilogueTileN
                  * dtypeGetNumBits(dtypeSmemC)) \div 8
            ELSE 0
        numDqSfsCPerCta == IF c.transposeMmaOutput THEN c.tileM ELSE c.tileN
        numBytesSmemRowMax ==
            ((IF c.useDeepSeekFp8 THEN numDqSfsCPerCta ELSE 0) * dtypeGetNumBits("Fp32")) \div 8
        tileSize ==
            IF c.numSlicesForSliceK > 1
            THEN c.numSlicesForSliceK * c.tileM * c.numSlicesForSliceK * c.tileN
            ELSE 0
        numBytesSmemTile == (tileSize * dtypeGetNumBits(c.dtypeAcc)) \div 8
    IN  << <<numSmemBytesLoadA, 1024>>,
           <<numSmemBytesLoadB, 1024>>,
           <<numSmemBytesShuffleB, 1024>>,
           <<numBytesSmemStoreC(0), 1024>>,
           <<numBytesSmemStoreC(1), 1024>>,
           <<numBytesSmemRowMax, 16>>,
           <<numBytesSmemTile, 16>> >>

(* firstChunkReuseSmem: only GmemC for resIdx 0 can reuse the first chunk. *)
SmemReuse(c) ==
    << FALSE, FALSE, FALSE,
       doesSplitKUseDsmem(c.splitK) /\ 0 = 0,
       doesSplitKUseDsmem(c.splitK) /\ 1 = 0,
       FALSE, FALSE >>

(* numBytesAndAlignmentPerTmemChunk: D, A, SfA, SfB, in columns. *)
TmemChunks(c) ==
    LET numTmemColsD ==
            (c.numSlicesForSliceK * c.tileN * c.numStagesMma * dtypeGetNumBits(c.dtypeAcc))
            \div dtypeGetNumBits("UInt32")
        numTmemColsA ==
            IF c.numSlicesForSliceK > 1
            THEN (c.numStages * c.tileK)
                 \div ((c.numSlicesForSliceK * dtypeGetNumBits("UInt32"))
                       \div dtypeGetNumBits(c.dtypeElt))
            ELSE 0
        useBlockScaling == dtypeIsBlockFmt(c.dtypeElt)
        numTmemColsSfA ==
            IF useBlockScaling
            THEN ((c.tileK \div 64) * 2 * ceilDiv(c.tileM, 64)) * c.numStages
            ELSE 0
        numTmemColsSfB ==
            IF useBlockScaling
            THEN ((c.tileK \div 64) * 2 * ceilDiv(c.tileN, 64)) * c.numStages
            ELSE 0
    IN  << <<numTmemColsD, 2>>, <<numTmemColsA, 4>>,
           <<numTmemColsSfA, 2>>, <<numTmemColsSfB, 2>> >>

TmemReuse(c) == << FALSE, FALSE, FALSE, FALSE >>

(* The constructor; args keeps its arguments for the properties. *)
KernelTraits(c) ==
    [constructed |-> TRUE,
     args |-> c,
     mSmemAllocatorHelper |-> Helper(SmemChunks(c), SmemReuse(c)),
     mTmemAllocatorHelper |-> Helper(TmemChunks(c), TmemReuse(c))]

(* The default constructor: both helpers default-constructed. *)
DefaultKernelTraits ==
    [constructed |-> FALSE,
     args |-> << >>,
     mSmemAllocatorHelper |-> Helper(<< >>, << >>),
     mTmemAllocatorHelper |-> Helper(<< >>, << >>)]

(* The accessors: the pool each queries and the chunk index it passes. *)
SmemAccessors ==
    [getSmemOffsetLoadA |-> 0,
     getSmemOffsetLoadB |-> 1,
     getSmemOffsetLoadAb |-> 0,
     getSmemOffsetLoadShuffleB |-> 2,
     getSmemOffsetGmemC0 |-> 3 + 0,
     getSmemOffsetGmemC1 |-> 3 + 1,
     getSmemOffsetRowMax |-> 5,
     getSmemOffsetSliceK |-> 6]

TmemAccessors ==
    [getTmemOffsetD |-> 0,
     getTmemOffsetA |-> 1,
     getTmemOffsetSfA |-> 2,
     getTmemOffsetSfB |-> 3]

(* The configurations explored. *)
Configs ==
    [dtypeElt : {"E4m3", "E2m1"},
     dtypeC : {"Bfloat16"},
     dtypeAcc : {"Fp32"},
     tileM : {64},
     tileN : {1, 8},
     tileK : {64},
     epilogueTileM : {64},
     epilogueTileN : {8},
     numStages : {1, 2},
     numStagesMma : {1, 2},
     numSlicesForSplitK : {1, 2},
     numSlicesForSliceK : {1, 2},
     splitK : {"None", "Gmem", "Dsmem"},
     useTmaStore : BOOLEAN,
     transposeMmaOutput : BOOLEAN,
     allReduceAlgo : {"None", "TwoShot"},
     useDeepSeekFp8 : BOOLEAN]

----------------------------------------------------------------------------
(* Inputs. *)

Chunk == [sizeBytes : Sizes, alignment : Alignments, reuseFirstChunk : BOOLEAN]

Mk(s, a, r) == [sizeBytes |-> s, alignment |-> a, reuseFirstChunk |-> r]

Scenario1 == <<Mk(100, 16, FALSE), Mk(50, 16, FALSE)>>
Scenario2 == <<Mk(1, 1, FALSE), Mk(1, 1, FALSE), Mk(1024, 1, TRUE)>>
Scenario3 == <<Mk(100, 16, FALSE), Mk(50, 16, FALSE), Mk(8, 1, TRUE)>>
Scenario4 == <<Mk(10, 3, FALSE)>>
ScenarioReusedBadAlignment == <<Mk(1, 1, FALSE), Mk(10, 3, TRUE)>>
ScenarioFirstBadAlignment == <<Mk(10, 3, FALSE), Mk(1, 1, TRUE)>>

Scenarios ==
    {Scenario1, Scenario2, Scenario3, Scenario4,
     ScenarioReusedBadAlignment, ScenarioFirstBadAlignment}

ChunkSeqs == (UNION {[1..n -> Chunk] : n \in 0..MaxChunks}) \cup Scenarios

SizesOf(C) == [i \in 1..Len(C) |-> <<C[i].sizeBytes, C[i].alignment>>]
ReuseOf(C) == [i \in 1..Len(C) |-> C[i].reuseFirstChunk]

----------------------------------------------------------------------------
(* The state machine. *)

Init ==
    /\ \E C \in ChunkSeqs :
          /\ mNumBytesAndAlignmentPerSmemChunk = SizesOf(C)
          /\ mFirstChunkReuse = ReuseOf(C)
    /\ pc = "idle"
    /\ fn = "none"
    /\ arg = 0
    /\ cur = 0
    /\ depth = 0
    /\ ret = NoResult
    /\ traits = DefaultKernelTraits

Members == <<mNumBytesAndAlignmentPerSmemChunk, mFirstChunkReuse, traits>>

NotInCall == pc = "idle"

(* A caller enters getChunkOffset(ii); ii may lie one past either end. *)
CallGetChunkOffset ==
    /\ NotInCall
    /\ \E ii \in -1..NumChunks(this) :
          /\ arg' = ii
          /\ cur' = ii
    /\ pc' = "getChunkOffset"
    /\ fn' = "getChunkOffset"
    /\ depth' = 0
    /\ ret' = NoResult
    /\ UNCHANGED Members

(* mFirstChunkReuse[ii] is true: recurse into getChunkOffset(0). *)
Delegate ==
    /\ pc = "getChunkOffset"
    /\ InRange(this, cur)
    /\ ReuseBranch(this, cur)
    /\ depth < MaxDepth
    /\ cur' = 0
    /\ depth' = depth + 1
    /\ UNCHANGED <<Members, pc, fn, arg, ret>>

(* mFirstChunkReuse[ii] is false: pad the offset before ii and return. *)
Compute ==
    /\ pc = "getChunkOffset"
    /\ InRange(this, cur)
    /\ ~ReuseBranch(this, cur)
    /\ ret' = AlignedOffset(this, cur, ElemSecond(this, cur))
    /\ pc' = "returned"
    /\ UNCHANGED <<Members, fn, arg, cur, depth>>

(* ii is outside the vectors: operator[] reads past the storage, which is  *)
(* undefined.  A checked build traps; otherwise the flag read is either    *)
(* value, and the alignment read is any int.                               *)
OutOfRangeTrap ==
    /\ pc = "getChunkOffset"
    /\ ~InRange(this, cur)
    /\ ret' = Err("IndexOutOfRange")
    /\ pc' = "returned"
    /\ UNCHANGED <<Members, fn, arg, cur, depth>>

OutOfRangeDelegate ==
    /\ pc = "getChunkOffset"
    /\ ~InRange(this, cur)
    /\ depth < MaxDepth
    /\ cur' = 0
    /\ depth' = depth + 1
    /\ UNCHANGED <<Members, pc, fn, arg, ret>>

OutOfRangeCompute ==
    /\ pc = "getChunkOffset"
    /\ ~InRange(this, cur)
    /\ cur \in {-1, NumChunks(this)}
    /\ \E garbage \in Alignments \cup {3, 4} :
          ret' = AlignedOffset(this, cur, garbage)
    /\ pc' = "returned"
    /\ UNCHANGED <<Members, fn, arg, cur, depth>>

CallGetTotalSize ==
    /\ NotInCall
    /\ fn' = "getTotalSize"
    /\ arg' = 0
    /\ cur' = 0
    /\ depth' = 0
    /\ ret' = getTotalSize(this)
    /\ pc' = "returned"
    /\ UNCHANGED Members

CallGetOffsetBeforeChunk ==
    /\ NotInCall
    /\ \E jj \in 0..NumChunks(this) :
          /\ arg' = jj
          /\ ret' = getOffsetBeforeChunk(this, jj)
    /\ fn' = "getOffsetBeforeChunk"
    /\ cur' = 0
    /\ depth' = 0
    /\ pc' = "returned"
    /\ UNCHANGED Members

(* The caller has consumed the result and is free to call again. *)
ReturnToCaller ==
    /\ pc = "returned"
    /\ pc' = "idle"
    /\ fn' = "none"
    /\ arg' = 0
    /\ cur' = 0
    /\ depth' = 0
    /\ ret' = NoResult
    /\ UNCHANGED Members

Next ==
    \/ CallGetChunkOffset
    \/ Delegate
    \/ Compute
    \/ OutOfRangeTrap
    \/ OutOfRangeDelegate
    \/ OutOfRangeCompute
    \/ CallGetTotalSize
    \/ CallGetOffsetBeforeChunk
    \/ ReturnToCaller

Spec == Init /\ [][Next]_vars

----------------------------------------------------------------------------
(* getSizePaddedToAlignment on its own: the padding applied to a size and  *)
(* an alignment, and applied once more to what it returned.                *)

InitPad ==
    /\ mNumBytesAndAlignmentPerSmemChunk = <<>>
    /\ mFirstChunkReuse = <<>>
    /\ pc = "idle"
    /\ fn = "none"
    /\ arg = 0
    /\ cur = 0
    /\ depth = 0
    /\ ret = NoResult
    /\ traits = DefaultKernelTraits

(* arg is <<size, alignment>>; depth counts the applications before it. *)
CallGetSizePaddedToAlignment ==
    /\ NotInCall
    /\ \E size \in 0..MaxPadSize, alignment \in 0..MaxPadAlign :
          /\ arg' = <<size, alignment>>
          /\ ret' = getSizePaddedToAlignment(size, alignment)
    /\ fn' = "getSizePaddedToAlignment"
    /\ pc' = "returned"
    /\ UNCHANGED <<Members, cur, depth>>

PadAgain ==
    /\ pc = "returned"
    /\ fn = "getSizePaddedToAlignment"
    /\ depth = 0
    /\ IsOk(ret)
    /\ arg' = <<Val(ret), arg[2]>>
    /\ ret' = getSizePaddedToAlignment(Val(ret), arg[2])
    /\ depth' = 1
    /\ UNCHANGED <<Members, pc, fn, cur>>

NextPad ==
    \/ CallGetSizePaddedToAlignment
    \/ PadAgain
    \/ ReturnToCaller

SpecPad == InitPad /\ [][NextPad]_vars

----------------------------------------------------------------------------
(* KernelTraits and its accessors.  Each accessor takes the traits by      *)
(* value and calls getChunkOffset or getTotalSize on one of its pools.     *)

InitTraits ==
    /\ \E c \in Configs : traits = KernelTraits(c)
    /\ mNumBytesAndAlignmentPerSmemChunk = << >>
    /\ mFirstChunkReuse = << >>
    /\ pc = "idle"
    /\ fn = "none"
    /\ arg = 0
    /\ cur = 0
    /\ depth = 0
    /\ ret = NoResult

EnterChunkOffset(helper, name, index) ==
    /\ mNumBytesAndAlignmentPerSmemChunk' = helper.sizes
    /\ mFirstChunkReuse' = helper.reuse
    /\ pc' = "getChunkOffset"
    /\ fn' = name
    /\ arg' = index
    /\ cur' = index
    /\ depth' = 0
    /\ ret' = NoResult
    /\ UNCHANGED traits

CallSmemOffset ==
    /\ NotInCall
    /\ traits.constructed
    /\ \E name \in DOMAIN SmemAccessors :
          EnterChunkOffset(traits.mSmemAllocatorHelper, name, SmemAccessors[name])

CallTmemOffset ==
    /\ NotInCall
    /\ traits.constructed
    /\ \E name \in DOMAIN TmemAccessors :
          EnterChunkOffset(traits.mTmemAllocatorHelper, name, TmemAccessors[name])

BufferSize(helper, name) ==
    /\ mNumBytesAndAlignmentPerSmemChunk' = helper.sizes
    /\ mFirstChunkReuse' = helper.reuse
    /\ pc' = "returned"
    /\ fn' = name
    /\ arg' = 0
    /\ cur' = 0
    /\ depth' = 0
    /\ ret' = getTotalSize(helper)
    /\ UNCHANGED traits

CallGetSmemBufferSize ==
    /\ NotInCall
    /\ traits.constructed
    /\ BufferSize(traits.mSmemAllocatorHelper, "getSmemBufferSize")

CallGetTmemBufferSize ==
    /\ NotInCall
    /\ traits.constructed
    /\ BufferSize(traits.mTmemAllocatorHelper, "getTmemBufferSize")

NextTraits ==
    \/ CallSmemOffset
    \/ CallTmemOffset
    \/ CallGetSmemBufferSize
    \/ CallGetTmemBufferSize
    \/ Delegate
    \/ Compute
    \/ ReturnToCaller

SpecTraits == InitTraits /\ [][NextTraits]_vars

(* Both kinds of caller: a helper built from any chunk sequence, and the   *)
(* pools of a KernelTraits.                                                *)
InitAll == Init \/ InitTraits
NextAll == Next \/ NextTraits
SpecAll == InitAll /\ [][NextAll]_vars

----------------------------------------------------------------------------
(* Vocabulary of the properties, independent of the code above. *)

IsPowerOfTwo(a) == a >= 1 /\ \E k \in 0..30 : a = 2^k

(* The smallest multiple of a that is >= size, for a >= 1. *)
RoundUpRef(size, a) == ((size + a - 1) \div a) * a

Indices(self) == 0..(NumChunks(self) - 1)
PaddedSize(self, k) == RoundUpRef(ElemFirst(self, k), ElemSecond(self, k))
ValidAlignments(self) == \A k \in Indices(self) : IsPowerOfTwo(ElemSecond(self, k))
FirstNotReused(self) == NumChunks(self) > 0 => ~Reuse(self, 0)

(* Half-open ranges [a, a + la) and [b, b + lb) share a byte. *)
Intersect(a, la, b, lb) == la > 0 /\ lb > 0 /\ a < b + lb /\ b < a + la

Returned(method) == pc = "returned" /\ fn = method

(* The sequence with chunk k's size replaced by 0, and with chunk k removed. *)
ZeroSize(self, k) ==
    Helper([i \in 1..NumChunks(self) |->
               IF i = k + 1 THEN <<0, self.sizes[i][2]>> ELSE self.sizes[i]],
           self.reuse)
RemoveChunk(self, k) ==
    Helper([i \in 1..(NumChunks(self) - 1) |->
               IF i <= k THEN self.sizes[i] ELSE self.sizes[i + 1]],
           [i \in 1..(NumChunks(self) - 1) |->
               IF i <= k THEN self.reuse[i] ELSE self.reuse[i + 1]])
Prefix(self, k) == Helper(SubSeq(self.sizes, 1, k), SubSeq(self.reuse, 1, k))

RECURSIVE SumNonReused(_, _)
SumNonReused(self, n) ==
    IF n = 0 THEN 0
    ELSE SumNonReused(self, n - 1)
         + (IF Reuse(self, n - 1) THEN 0 ELSE PaddedSize(self, n - 1))

----------------------------------------------------------------------------
(* C1: with power-of-two alignments and chunk 0 not reused, the byte       *)
(* ranges of two non-reused chunks i < j never intersect.  Stated for the  *)
(* offset a getChunkOffset(j) call returned against every earlier i.       *)
C1_NoOverlap ==
    (/\ Returned("getChunkOffset")
     /\ InRange(this, arg)
     /\ ValidAlignments(this)
     /\ FirstNotReused(this)
     /\ ~Reuse(this, arg))
    => /\ IsOk(ret)
       /\ \A i \in 0..(arg - 1) :
             ~Reuse(this, i) =>
                ~Intersect(Val(getChunkOffset(this, i)), PaddedSize(this, i),
                           Val(ret), PaddedSize(this, arg))

(* C2: with power-of-two alignments and chunk 0 not reused, the offset a   *)
(* getChunkOffset(i) call returns for an in-range i, reused or not, is a   *)
(* multiple of chunk i's alignment.                                        *)
C2_Alignment ==
    (/\ Returned("getChunkOffset")
     /\ InRange(this, arg)
     /\ ValidAlignments(this)
     /\ FirstNotReused(this))
    => /\ IsOk(ret)
       /\ Val(ret) % ElemSecond(this, arg) = 0

(* A call on a chunk with alignment 2 whose preceding footprint was odd,   *)
(* in a sequence that also holds a reused chunk with alignment 2.          *)
C2_Witness ==
    /\ Returned("getChunkOffset")
    /\ InRange(this, arg)
    /\ ValidAlignments(this)
    /\ FirstNotReused(this)
    /\ IsOk(ret)
    /\ Val(ret) > Val(getOffsetBeforeChunk(this, arg))
    /\ \E i \in Indices(this) : Reuse(this, i) /\ ElemSecond(this, i) = 2

(* C3 as stated: when chunk 0 is not reused, a call on a reused chunk      *)
(* returns what getChunkOffset(0) returns, and that is the value 0,        *)
(* whatever the sizes and alignments are.                                  *)
C3_ReusedIsZeroAlways ==
    (/\ Returned("getChunkOffset")
     /\ InRange(this, arg)
     /\ FirstNotReused(this)
     /\ Reuse(this, arg))
    => /\ ret = getChunkOffset(this, 0)
       /\ ret = Ok(0)

(* C3 amended: when chunk 0 is not reused, a call on a reused chunk ends   *)
(* as getChunkOffset(0) ends; it returns the value 0 when chunk 0's        *)
(* alignment is a power of two, whatever the sizes and the other           *)
(* alignments are, and fails with InvalidAlignment as chunk 0 does         *)
(* when the check rejects chunk 0's alignment.                             *)
C3_ReuseAliasing ==
    (/\ Returned("getChunkOffset")
     /\ InRange(this, arg)
     /\ FirstNotReused(this)
     /\ Reuse(this, arg))
    => /\ ret = getChunkOffset(this, 0)
       /\ IsPowerOfTwo(ElemSecond(this, 0)) => ret = Ok(0)
       /\ ~IsOk(ret) => ret = Err("InvalidAlignment") /\ ~IsPowerOfTwo(ElemSecond(this, 0))

(* A returned call on a reused chunk that sits behind reserved bytes and   *)
(* has another alignment than chunk 0.                                     *)
C3_Witness ==
    /\ Returned("getChunkOffset")
    /\ InRange(this, arg)
    /\ FirstNotReused(this)
    /\ Reuse(this, arg)
    /\ depth = 1
    /\ ret = Ok(0)
    /\ IsOk(getOffsetBeforeChunk(this, arg))
    /\ Val(getOffsetBeforeChunk(this, arg)) > 0
    /\ ElemSecond(this, arg) # ElemSecond(this, 0)

(* C4: getOffsetBeforeChunk follows the fold: 0 for the empty prefix; one  *)
(* more chunk adds its padded size if it is not reused, raises the total   *)
(* to its padded size if it is reused and larger, and changes nothing      *)
(* otherwise.  getTotalSize is the fold over the whole sequence: 0 for the *)
(* empty one, 1024 for scenario 2, whose first two chunks reserve 2.       *)
C4_OffsetBeforeFold ==
    /\ (Returned("getOffsetBeforeChunk") /\ arg = 0) => ret = Ok(0)
    /\ (/\ Returned("getOffsetBeforeChunk")
        /\ arg >= 1
        /\ \A k \in 0..(arg - 1) : IsPowerOfTwo(ElemSecond(this, k)))
       => LET before == getOffsetBeforeChunk(this, arg - 1)
              padded == PaddedSize(this, arg - 1)
          IN  /\ IsOk(before)
              /\ IsOk(ret)
              /\ Val(ret) = IF ~Reuse(this, arg - 1) THEN Val(before) + padded
                            ELSE IF padded > Val(before) THEN padded
                            ELSE Val(before)
    /\ Returned("getTotalSize")
       => /\ ret = getOffsetBeforeChunk(this, NumChunks(this))
          /\ NumChunks(this) = 0 => ret = Ok(0)
          /\ this = Helper(SizesOf(Scenario2), ReuseOf(Scenario2)) => ret = Ok(1024)
    /\ (/\ Returned("getOffsetBeforeChunk")
        /\ arg = 2
        /\ this = Helper(SizesOf(Scenario2), ReuseOf(Scenario2)))
       => ret = Ok(2)

(* getTotalSize has returned 1024 for scenario 2. *)
C4_Witness ==
    /\ this = Helper(SizesOf(Scenario2), ReuseOf(Scenario2))
    /\ Returned("getTotalSize")
    /\ ret = Ok(1024)

(* C5: with power-of-two alignments the total size getTotalSize returns is *)
(* at least the padded size of every chunk, reused or not, and at least    *)
(* the sum of the padded sizes of the non-reused chunks.                   *)
C5_TotalCoversChunks ==
    (Returned("getTotalSize") /\ ValidAlignments(this))
    => /\ IsOk(ret)
       /\ \A i \in Indices(this) : Val(ret) >= PaddedSize(this, i)
       /\ Val(ret) >= SumNonReused(this, NumChunks(this))

(* getTotalSize returned more than the non-reused chunks need, because a   *)
(* reused chunk is larger than what was reserved before it.                *)
C5_Witness ==
    /\ Returned("getTotalSize")
    /\ ValidAlignments(this)
    /\ IsOk(ret)
    /\ SumNonReused(this, NumChunks(this)) > 0
    /\ \E i \in Indices(this) :
          /\ Reuse(this, i)
          /\ PaddedSize(this, i) > Val(getOffsetBeforeChunk(this, i))
          /\ Val(ret) >= PaddedSize(this, i)
          /\ Val(ret) > SumNonReused(this, NumChunks(this))

(* C6: with power-of-two alignments and chunk 0 not reused, a non-reused   *)
(* chunk i+1 starts at or after the end of chunk i.  Stated for the offset *)
(* a getChunkOffset(i+1) call returned.                                    *)
C6_StartsAfterPredecessor ==
    (/\ Returned("getChunkOffset")
     /\ InRange(this, arg)
     /\ arg >= 1
     /\ ValidAlignments(this)
     /\ FirstNotReused(this)
     /\ ~Reuse(this, arg))
    => /\ IsOk(ret)
       /\ Val(ret) >= Val(getChunkOffset(this, arg - 1)) + PaddedSize(this, arg - 1)

(* C7: with power-of-two alignments, what getOffsetBeforeChunk(k) returns  *)
(* is at least getOffsetBeforeChunk(j) for every j <= k, and what          *)
(* getTotalSize returns is at least the total size of every prefix of the  *)
(* sequence.                                                               *)
C7_MonotonicGrowth ==
    /\ (Returned("getOffsetBeforeChunk") /\ ValidAlignments(this))
       => /\ IsOk(ret)
          /\ \A j \in 0..arg :
                /\ IsOk(getOffsetBeforeChunk(this, j))
                /\ Val(getOffsetBeforeChunk(this, j)) <= Val(ret)
    /\ (Returned("getTotalSize") /\ ValidAlignments(this))
       => /\ IsOk(ret)
          /\ \A k \in 0..NumChunks(this) :
                /\ IsOk(getTotalSize(Prefix(this, k)))
                /\ Val(getTotalSize(Prefix(this, k))) <= Val(ret)

(* The footprint just after a reused chunk that is smaller than what was   *)
(* reserved before it.                                                     *)
C7_Witness ==
    /\ Returned("getOffsetBeforeChunk")
    /\ ValidAlignments(this)
    /\ arg >= 1
    /\ Reuse(this, arg - 1)
    /\ PaddedSize(this, arg - 1) > 0
    /\ PaddedSize(this, arg - 1) < Val(getOffsetBeforeChunk(this, arg - 1))
    /\ ret = getOffsetBeforeChunk(this, arg - 1)

(* C8: with power-of-two alignments and chunk 0 not reused, setting the    *)
(* size of a chunk k to 0 does not increase the offset returned for any    *)
(* other chunk, nor the total size returned; and a chunk of size 0 adds    *)
(* nothing: the footprint after it is the footprint before it, and every   *)
(* chunk after it lies where it lies in the sequence without it.           *)
C8_ZeroSizeNeutral ==
    /\ (/\ Returned("getChunkOffset")
        /\ InRange(this, arg)
        /\ ValidAlignments(this)
        /\ FirstNotReused(this))
       => /\ IsOk(ret)
          /\ \A k \in Indices(this) \ {arg} :
                /\ IsOk(getChunkOffset(ZeroSize(this, k), arg))
                /\ Val(getChunkOffset(ZeroSize(this, k), arg)) <= Val(ret)
          /\ \A k \in 0..(arg - 1) :
                (ElemFirst(this, k) = 0 /\ FirstNotReused(RemoveChunk(this, k)))
                => ret = getChunkOffset(RemoveChunk(this, k), arg - 1)
    /\ (/\ Returned("getTotalSize")
        /\ ValidAlignments(this)
        /\ FirstNotReused(this))
       => /\ IsOk(ret)
          /\ \A k \in Indices(this) :
                /\ IsOk(getTotalSize(ZeroSize(this, k)))
                /\ Val(getTotalSize(ZeroSize(this, k))) <= Val(ret)
                /\ ElemFirst(this, k) = 0 => ret = getTotalSize(RemoveChunk(this, k))
    /\ (/\ Returned("getOffsetBeforeChunk")
        /\ arg >= 1
        /\ ValidAlignments(this)
        /\ FirstNotReused(this)
        /\ ElemFirst(this, arg - 1) = 0)
       => ret = getOffsetBeforeChunk(this, arg - 1)

(* A returned offset that an earlier chunk's size pushed up, in a sequence *)
(* that also holds a chunk of size 0 with alignment 2 before the queried   *)
(* chunk.                                                                  *)
C8_Witness ==
    /\ Returned("getChunkOffset")
    /\ InRange(this, arg)
    /\ ValidAlignments(this)
    /\ FirstNotReused(this)
    /\ IsOk(ret)
    /\ \E k \in 0..(arg - 1) :
          /\ ElemFirst(this, k) > 0
          /\ Val(getChunkOffset(ZeroSize(this, k), arg)) < Val(ret)
    /\ \E k \in 0..(arg - 1) : ElemFirst(this, k) = 0 /\ ElemSecond(this, k) = 2

(* C9: an alignment that is not a power of two is always caught: a         *)
(* getChunkOffset(i) call on a chunk with such an alignment, reused or     *)
(* not, ends with InvalidAlignment, and so does getTotalSize when any      *)
(* chunk has one; both fail for the single chunk {10, 3, false}.           *)
C9_InvalidAlignmentCaught ==
    /\ (/\ Returned("getChunkOffset")
        /\ InRange(this, arg)
        /\ ~IsPowerOfTwo(ElemSecond(this, arg)))
       => ret = Err("InvalidAlignment")
    /\ (Returned("getTotalSize") /\ ~ValidAlignments(this))
       => ret = Err("InvalidAlignment")

(* C10: a getChunkOffset(i) call with i outside [0, n) ends with           *)
(* IndexOutOfRange; for the empty sequence every getChunkOffset call does, *)
(* while getTotalSize returns 0.                                           *)
C10_IndexOutOfRange ==
    /\ (Returned("getChunkOffset") /\ ~InRange(this, arg))
       => ret = Err("IndexOutOfRange")
    /\ (Returned("getTotalSize") /\ NumChunks(this) = 0) => ret = Ok(0)

(* C11: for size >= 0 and a power-of-two alignment A >= 1,                 *)
(* getSizePaddedToAlignment(size, A) returns the smallest multiple of A    *)
(* that is >= size: a multiple of A in [size, size + A), 0 for size 0, and *)
(* applied to its own result it returns that result.                       *)
C11_RoundUp ==
    (Returned("getSizePaddedToAlignment") /\ IsPowerOfTwo(arg[2]))
    => /\ IsOk(ret)
       /\ Val(ret) % arg[2] = 0
       /\ arg[1] <= Val(ret)
       /\ Val(ret) < arg[1] + arg[2]
       /\ \A m \in arg[1]..Val(ret) : m % arg[2] = 0 => m = Val(ret)
       /\ arg[1] = 0 => ret = Ok(0)
       /\ depth = 1 => ret = Ok(arg[1])

(* The padding applied a second time, after it rounded a size up by more   *)
(* than one to a multiple of an alignment of at least 4.                   *)
C11_Witness ==
    /\ Returned("getSizePaddedToAlignment")
    /\ depth = 1
    /\ arg[2] >= 4
    /\ IsPowerOfTwo(arg[2])
    /\ arg[1] > arg[2]
    /\ ret = Ok(arg[1])

IsScenario(C) == this = Helper(SizesOf(C), ReuseOf(C))

(* C12 as stated: for [{100,16,false},{50,16,false}] the offsets are 0 and *)
(* 112 and the total size is 128; with {8,1,true} appended the total size  *)
(* is still 128 and the offset of the appended chunk is 0.                 *)
C12_Scenario1Total128 ==
    /\ IsScenario(Scenario1)
       => /\ (Returned("getChunkOffset") /\ arg = 0) => ret = Ok(0)
          /\ (Returned("getChunkOffset") /\ arg = 1) => ret = Ok(112)
          /\ Returned("getTotalSize") => ret = Ok(128)
    /\ IsScenario(Scenario3)
       => /\ (Returned("getChunkOffset") /\ arg = 2) => ret = Ok(0)
          /\ Returned("getTotalSize") => ret = Ok(128)

(* C12 amended: the total size of both sequences is 176 (112 + 64, the     *)
(* padded sizes of the two chunks); the offsets are 0, 112 and, for the    *)
(* appended reused chunk, 0.                                               *)
C12_Scenario1Total176 ==
    /\ IsScenario(Scenario1)
       => /\ (Returned("getChunkOffset") /\ arg = 0) => ret = Ok(0)
          /\ (Returned("getChunkOffset") /\ arg = 1) => ret = Ok(112)
          /\ Returned("getTotalSize") => ret = Ok(176)
    /\ IsScenario(Scenario3)
       => /\ (Returned("getChunkOffset") /\ arg = 2) => ret = Ok(0)
          /\ Returned("getTotalSize")
             => ret = Ok(176) /\ ret = getTotalSize(Helper(SizesOf(Scenario1), ReuseOf(Scenario1)))

(* getTotalSize has returned for the sequence with the appended chunk. *)
C12_Witness ==
    /\ IsScenario(Scenario3)
    /\ Returned("getTotalSize")
    /\ ret = Ok(176)

(* C13: with power-of-two alignments and chunk 0 not reused, every chunk   *)
(* ends inside the total size: the offset getChunkOffset(i) returned plus  *)
(* the padded size of chunk i is at most what getTotalSize returns.        *)
C13_ChunkInsideTotal ==
    (/\ Returned("getChunkOffset")
     /\ InRange(this, arg)
     /\ ValidAlignments(this)
     /\ FirstNotReused(this))
    => /\ IsOk(ret)
       /\ IsOk(getTotalSize(this))
       /\ Val(ret) + PaddedSize(this, arg) <= Val(getTotalSize(this))

ReturnedFrom(accessors) == pc = "returned" /\ fn \in DOMAIN accessors

(* C14: in the TMEM pool (D, A, SfA, SfB with alignments 2, 4, 2, 2, none  *)
(* reused) each chunk starts at or after the end of the one before it, and *)
(* no two chunks share a column, whatever the column counts are.  Stated   *)
(* for the offset a TMEM accessor returned against the earlier chunks.     *)
C14_TmemOrdered ==
    ReturnedFrom(TmemAccessors)
    => /\ IsOk(ret)
       /\ arg >= 1
          => Val(ret) >= Val(getChunkOffset(this, arg - 1)) + PaddedSize(this, arg - 1)
       /\ \A i \in 0..(arg - 1) :
             ~Intersect(Val(getChunkOffset(this, i)), PaddedSize(this, i),
                        Val(ret), PaddedSize(this, arg))

(* C15: with power-of-two alignments and chunk 0 not reused, the offset    *)
(* returned for a non-reused chunk j is at or after the end of every       *)
(* reused chunk k < j.  In the SMEM pool under DSMEM split-K, where gmemC0 *)
(* (index 3) is reused and gmemC1 (index 4) is not, what                   *)
(* getSmemOffsetGmemC(traits, 1) returns is at least                       *)
(* getSmemOffsetGmemC(traits, 0) plus the padded size of gmemC0.           *)
C15_AfterReused ==
    /\ (/\ pc = "returned"
        /\ fn \in {"getChunkOffset"} \cup DOMAIN SmemAccessors \cup DOMAIN TmemAccessors
        /\ InRange(this, arg)
        /\ ValidAlignments(this)
        /\ FirstNotReused(this)
        /\ ~Reuse(this, arg))
       => /\ IsOk(ret)
          /\ \A k \in 0..(arg - 1) :
                Reuse(this, k)
                => /\ IsOk(getChunkOffset(this, k))
                   /\ Val(ret) >= Val(getChunkOffset(this, k)) + PaddedSize(this, k)
    /\ (/\ pc = "returned"
        /\ fn = "getSmemOffsetGmemC1"
        /\ doesSplitKUseDsmem(traits.args.splitK))
       => /\ this = traits.mSmemAllocatorHelper
          /\ Reuse(this, 3)
          /\ ~Reuse(this, 4)
          /\ IsOk(ret)
          /\ Val(ret) >= Val(getChunkOffset(this, 3)) + PaddedSize(this, 3)

(* getSmemOffsetGmemC(traits, 1) returned under DSMEM split-K for a        *)
(* non-empty gmemC1 behind a gmemC0 that is larger than the three load     *)
(* chunks it reuses.                                                       *)
C15_Witness ==
    /\ pc = "returned"
    /\ fn = "getSmemOffsetGmemC1"
    /\ doesSplitKUseDsmem(traits.args.splitK)
    /\ ElemFirst(this, 4) > 0
    /\ PaddedSize(this, 3) > Val(getOffsetBeforeChunk(this, 3))
    /\ ret = Ok(PaddedSize(this, 3))

InGetChunkOffset == pc = "getChunkOffset" /\ fn = "getChunkOffset" /\ InRange(this, arg)

(* C16: a getChunkOffset(i) call with an in-range i on a sequence with     *)
(* power-of-two alignments ends exactly when chunk 0 is not reused.  With  *)
(* chunk 0 not reused the call has delegated at most once, to index 0,     *)
(* its next step is the computation that returns, or the one delegation,   *)
(* and it returns a value.  With chunk 0 reused a call on chunk 0 or on    *)
(* any reused chunk can only delegate to index 0 again: the computation    *)
(* that returns is never reached and no such call has returned.            *)
C16_TerminatesIffFirstNotReused ==
    /\ (InGetChunkOffset /\ ValidAlignments(this) /\ ~Reuse(this, 0))
       => /\ depth <= 1
          /\ depth = 0 => cur = arg /\ (ENABLED Compute \/ ENABLED Delegate)
          /\ depth = 1 => cur = 0 /\ Reuse(this, arg) /\ ENABLED Compute
    /\ (/\ Returned("getChunkOffset")
        /\ InRange(this, arg)
        /\ ValidAlignments(this)
        /\ ~Reuse(this, 0))
       => IsOk(ret) /\ depth <= 1 /\ (depth = 1 <=> Reuse(this, arg))
    /\ (/\ InGetChunkOffset
        /\ ValidAlignments(this)
        /\ Reuse(this, 0)
        /\ Reuse(this, arg))
       => /\ ~ENABLED Compute
          /\ depth >= 1 => cur = 0
          /\ depth < MaxDepth => ENABLED Delegate
    /\ (Returned("getChunkOffset") /\ InRange(this, arg) /\ ValidAlignments(this))
       => ~(Reuse(this, 0) /\ Reuse(this, arg))

(* A call on a reused chunk behind a reused chunk 0 that has delegated to  *)
(* index 0 as often as the model follows it, and would delegate again.     *)
C16_Witness ==
    /\ InGetChunkOffset
    /\ ValidAlignments(this)
    /\ Reuse(this, 0)
    /\ arg >= 1
    /\ Reuse(this, arg)
    /\ depth = MaxDepth
    /\ cur = 0
    /\ ReuseBranch(this, cur)

AllAccessors == DOMAIN SmemAccessors \cup DOMAIN TmemAccessors
BufferSizes == {"getSmemBufferSize", "getTmemBufferSize"}

(* C17: for every configuration KernelTraits was constructed from, the     *)
(* SMEM pool has 7 chunks and the TMEM pool 4, in the fixed order: loadA,  *)
(* loadB and D are never empty, and a chunk the configuration disables     *)
(* keeps its slot with size 0.  Chunk 0 of each pool is not reused, only   *)
(* SMEM index 3 can be, and every alignment is a power of two.  Every      *)
(* offset accessor queries its own fixed in-range index and delegates at   *)
(* most once, to index 0, where the flag is false and the computation that *)
(* returns is next; every accessor that has returned, the two buffer sizes *)
(* included, returned a value.                                             *)
C17_PoolStructure ==
    traits.constructed
    => LET smem == traits.mSmemAllocatorHelper
           tmem == traits.mTmemAllocatorHelper
           c == traits.args
       IN  /\ NumChunks(smem) = 7 /\ Len(smem.reuse) = 7
           /\ NumChunks(tmem) = 4 /\ Len(tmem.reuse) = 4
           /\ ElemFirst(smem, 0) > 0 /\ ElemFirst(smem, 1) > 0 /\ ElemFirst(tmem, 0) > 0
           /\ c.numSlicesForSliceK <= 1
              => ElemFirst(smem, 2) = 0 /\ ElemFirst(smem, 6) = 0 /\ ElemFirst(tmem, 1) = 0
           /\ c.numSlicesForSliceK > 1
              => ElemFirst(smem, 2) > 0 /\ ElemFirst(smem, 6) > 0 /\ ElemFirst(tmem, 1) > 0
           /\ ~(c.useTmaStore \/ c.splitK = "Dsmem")
              => ElemFirst(smem, 3) = 0 /\ ElemFirst(smem, 4) = 0
           /\ (c.useTmaStore \/ c.splitK = "Dsmem") => ElemFirst(smem, 3) > 0
           /\ ~c.useDeepSeekFp8 => ElemFirst(smem, 4) = 0 /\ ElemFirst(smem, 5) = 0
           /\ c.useDeepSeekFp8 => ElemFirst(smem, 5) > 0
           /\ c.dtypeElt # "E2m1" => ElemFirst(tmem, 2) = 0 /\ ElemFirst(tmem, 3) = 0
           /\ c.dtypeElt = "E2m1" => ElemFirst(tmem, 2) > 0 /\ ElemFirst(tmem, 3) > 0
           /\ ~Reuse(smem, 0) /\ ~Reuse(tmem, 0)
           /\ \A k \in Indices(smem) : Reuse(smem, k) => k = 3
           /\ \A k \in Indices(tmem) : ~Reuse(tmem, k)
           /\ ValidAlignments(smem) /\ ValidAlignments(tmem)
           /\ fn \in DOMAIN SmemAccessors
              => this = smem /\ arg = SmemAccessors[fn] /\ InRange(this, arg)
           /\ fn \in DOMAIN TmemAccessors
              => this = tmem /\ arg = TmemAccessors[fn] /\ InRange(this, arg)
           /\ (pc = "getChunkOffset" /\ fn \in AllAccessors)
              => /\ depth <= 1
                 /\ InRange(this, cur)
                 /\ depth = 0 => cur = arg
                 /\ depth = 1 => cur = 0 /\ ~ReuseBranch(this, cur)
           /\ (pc = "returned" /\ fn \in AllAccessors \cup BufferSizes) => IsOk(ret)

(* getSmemOffsetRowMax returned the end of loadB for a configuration that  *)
(* disables the three chunks between loadB and rowMax.                     *)
C17_Witness ==
    /\ traits.constructed
    /\ pc = "returned"
    /\ fn = "getSmemOffsetRowMax"
    /\ arg = 5
    /\ ElemFirst(this, 2) = 0
    /\ ElemFirst(this, 3) = 0
    /\ ElemFirst(this, 4) = 0
    /\ ElemFirst(this, 5) > 0
    /\ ret = Ok(PaddedSize(this, 0) + PaddedSize(this, 1))

====
